---- MODULE Spec2Model ----
(***************************************************************************)
(* Relationship Garden: the Decay Engine (backend/app/core/decay.py) and   *)
(* its configuration snapshot (backend/app/core/config.py).                *)
(*                                                                         *)
(* Python floats are modelled as a reduced binary64: a finite value is an  *)
(* integer count of 1/Scale units with |value| <= MaxFloat, and the        *)
(* special values inf, -inf and nan behave as in IEEE 754 / CPython.       *)
(* Arithmetic rounds to the nearest representable value (ties to even),    *)
(* overflows to inf, underflows to 0, and math.exp / math.log / division   *)
(* raise the exceptions CPython raises.  Signed zeros are not              *)
(* distinguished (the engine never branches on the sign of a zero).        *)
(***************************************************************************)
EXTENDS Integers, Sequences, FiniteSets, TLC

VARIABLES pc, call, ret, settings, env, clock, mark, store, tasks

vars == <<pc, call, ret, settings, env, clock, mark, store, tasks>>

(***************************************************************************)
(* Bounds of the model.                                                    *)
(***************************************************************************)
\* Largest finite float magnitude, in whole units (binary64: about 1.8e308).
MaxFloat == 10000
\* Number of clock ticks (of one day) the wall clock may advance.
MaxTicks == 1

(***************************************************************************)
(* Float representation.                                                   *)
(***************************************************************************)
\* Resolution of the modelled float: units per 1.0.
Scale == 100000
\* Resolution used inside math.exp / math.log: FineFactor * Scale units per 1.0.
FineFactor == 1000
Fine == FineFactor * Scale
\* ln 2 in Fine units, rounded down.
Ln2Fine == 69314718

MaxRaw == MaxFloat * Scale

Fin(n) == [k |-> "fin", v |-> n]
PosInf == [k |-> "inf", v |-> 1]
NegInf == [k |-> "inf", v |-> -1]
NaN == [k |-> "nan", v |-> 0]

IsFin(x) == x.k = "fin"
IsInf(x) == x.k = "inf"
IsNaN(x) == x.k = "nan"

Abs(n) == IF n < 0 THEN -n ELSE n
Sgn(n) == IF n < 0 THEN -1 ELSE IF n > 0 THEN 1 ELSE 0
\* Sign of a float that is not nan.
FSgn(x) == Sgn(x.v)

\* Python outcomes of an engine call: a float, a string, None, or an exception.
Val(x) == [tag |-> "value", val |-> x, str |-> "", exc |-> ""]
Str(s) == [tag |-> "str", val |-> Fin(0), str |-> s, exc |-> ""]
None == [tag |-> "none", val |-> Fin(0), str |-> "", exc |-> ""]
Raise(e) == [tag |-> "raise", val |-> Fin(0), str |-> "", exc |-> e]

IsVal(o) == o.tag = "value"
IsRaise(o) == o.tag = "raise"

(***************************************************************************)
(* Integer helpers: a * b / d without overflowing the integers.            *)
(***************************************************************************)
IMin(a, b) == IF a < b THEN a ELSE b

\* Saturating sum and product of naturals: anything above MaxRaw is MaxRaw + 1.
SatAdd(x, y) == IMin(x + y, MaxRaw + 1)
SatMul(x, y) ==
    IF x = 0 \/ y = 0 THEN 0
    ELSE IF x > (MaxRaw + 1) \div y THEN MaxRaw + 1
    ELSE IMin(x * y, MaxRaw + 1)

\* Bits of the multiplier taken per step of the long multiplication: the most
\* (of 3, 2, 1) for which a partial sum, below 2^bits * d, fits 32 bits.
DigitBits(d) == IF d < 2^28 THEN 3 ELSE IF d < 2^29 THEN 2 ELSE 1
Radix(d) == 2^DigitBits(d)

\* One step per digit of b, most significant first: on entry a * (the digits
\* of b above position i) = q * d + r.  q saturates at MaxRaw + 1.
RECURSIVE MulAcc(_, _, _, _, _, _)
MulAcc(a, b, d, i, q, r) ==
    IF i < 0 \/ q > MaxRaw THEN <<q, r>>
    ELSE LET dig == (b \div Radix(d)^i) % Radix(d)
             t == Radix(d) * r
             s == (t % d) + dig * (a % d)
         IN  MulAcc(a, b, d, i - 1,
                    SatAdd(SatAdd(SatMul(Radix(d), q), t \div d),
                           SatAdd(SatMul(dig, a \div d), s \div d)),
                    s % d)

\* Position of the most significant digit of b (0 for b = 0).
TopDigit(b, d) ==
    CHOOSE i \in 0..((30 \div DigitBits(d)) - 1) :
        /\ b \div Radix(d)^i < Radix(d)
        /\ (i = 0 \/ b \div Radix(d)^i > 0)

\* <<q, r>> with a * b = q * d + r and 0 <= r < d, for 0 <= a, b < 2^30 and
\* 0 < d < 2^30; q saturates at MaxRaw + 1.
MulDivQR(a, b, d) == MulAcc(a, b, d, TopDigit(b, d), 0, 0)

\* Round q + r/d to the nearest integer, ties to even.
RoundQR(qr, d) ==
    IF qr[2] > d - qr[2] \/ (qr[2] = d - qr[2] /\ qr[1] % 2 = 1)
    THEN qr[1] + 1 ELSE qr[1]

\* round(a * b / d) for a, b >= 0, saturating at MaxRaw + 1.
MulDivRound(a, b, d) ==
    LET qr == MulDivQR(a, b, d) IN IF qr[1] > MaxRaw THEN MaxRaw + 1 ELSE RoundQR(qr, d)

(***************************************************************************)
(* Float comparison and arithmetic (CPython float semantics).              *)
(***************************************************************************)
\* x < y; every comparison with nan is False.
FLt(x, y) ==
    IF IsNaN(x) \/ IsNaN(y) THEN FALSE
    ELSE IF IsInf(x) THEN x.v = -1 /\ ~(IsInf(y) /\ y.v = -1)
    ELSE IF IsInf(y) THEN y.v = 1
    ELSE x.v < y.v
FEq(x, y) == ~IsNaN(x) /\ ~IsNaN(y) /\ x = y
FLe(x, y) == FLt(x, y) \/ FEq(x, y)
FGt(x, y) == FLt(y, x)
FGe(x, y) == FLe(y, x)

\* -x
FNeg(x) == IF IsNaN(x) THEN NaN ELSE [k |-> x.k, v |-> -x.v]

\* A finite result of magnitude m (already rounded) and sign s, overflowing to inf.
Pack(s, m) == IF m > MaxRaw THEN [k |-> "inf", v |-> s] ELSE Fin(s * m)

\* x * y
FMul(x, y) ==
    IF IsNaN(x) \/ IsNaN(y) THEN NaN
    ELSE IF IsInf(x) \/ IsInf(y)
         THEN IF FSgn(x) = 0 \/ FSgn(y) = 0 THEN NaN
              ELSE [k |-> "inf", v |-> FSgn(x) * FSgn(y)]
    ELSE Pack(FSgn(x) * FSgn(y), MulDivRound(Abs(x.v), Abs(y.v), Scale))

\* x / y as an outcome: Python raises ZeroDivisionError on a zero divisor.
FDiv(x, y) ==
    IF IsFin(y) /\ y.v = 0 THEN Raise("ZeroDivisionError")
    ELSE IF IsNaN(x) \/ IsNaN(y) THEN Val(NaN)
    ELSE IF IsInf(x) THEN (IF IsInf(y) THEN Val(NaN)
                           ELSE Val([k |-> "inf", v |-> x.v * FSgn(y)]))
    ELSE IF IsInf(y) THEN Val(Fin(0))
    ELSE Val(Pack(FSgn(x) * FSgn(y), MulDivRound(Abs(x.v), Scale, Abs(y.v))))

\* e^r in Fine units for 0 <= r < ln 2 (Taylor series, term by term).
RECURSIVE ExpSeries(_, _, _)
ExpSeries(r, term, n) ==
    IF term = 0 THEN 0
    ELSE term + ExpSeries(r, MulDivQR(r, term, Fine)[1] \div n, n + 1)

\* math.exp(x): e^x = 2^k * e^r with 0 <= r < ln 2; OverflowError when the
\* result exceeds the largest finite float, 0 when it underflows.
MathExp(x) ==
    IF IsNaN(x) THEN Val(NaN)
    ELSE IF IsInf(x) THEN (IF x.v = 1 THEN Val(PosInf) ELSE Val(Fin(0)))
    ELSE LET qr == MulDivQR(Abs(x.v), FineFactor, Ln2Fine)
             k == IF x.v >= 0 THEN qr[1]
                  ELSE IF qr[2] = 0 THEN -qr[1] ELSE -(qr[1] + 1)
             r == IF x.v >= 0 \/ qr[2] = 0 THEN qr[2] ELSE Ln2Fine - qr[2]
             e == ExpSeries(r, Fine, 1)
         IN  IF k >= 0
             THEN IF k > 30 THEN Raise("OverflowError")
                  ELSE LET m == MulDivRound(e, 2^k, FineFactor)
                       IN  IF m > MaxRaw THEN Raise("OverflowError") ELSE Val(Fin(m))
             ELSE IF -k > 19 THEN Val(Fin(0))
                  ELSE LET den == FineFactor * 2^(-k)
                       IN  Val(Fin(RoundQR(<<e \div den, e % den>>, den)))

\* floor(log2(n / Scale)) for n >= Scale, and its negation for 0 < n < Scale.
RECURSIVE Halvings(_)
Halvings(n) == IF n < 2 * Scale THEN 0 ELSE 1 + Halvings(n \div 2)
RECURSIVE Doublings(_)
Doublings(n) == IF n >= Scale THEN 0 ELSE 1 + Doublings(2 * n)

\* atanh(z) = z + z^3/3 + z^5/5 + ... in Fine units; p is the current power of z.
RECURSIVE AtanhSeries(_, _, _)
AtanhSeries(p, z2, n) ==
    IF p = 0 THEN 0
    ELSE (p \div n) + AtanhSeries(MulDivQR(z2, p, Fine)[1], z2, n + 2)

\* ln(n / Scale) in Fine units for n > 0: n / Scale = m * 2^k with 1 <= m < 2,
\* ln m = 2 atanh((m - 1) / (m + 1)).
LnFine(n) ==
    LET k == IF n >= Scale THEN Halvings(n) ELSE -Doublings(n)
        m == IF k >= 0 THEN MulDivQR(n, FineFactor, 2^k)[1]
             ELSE n * 2^(-k) * FineFactor
        z == MulDivQR(m - Fine, Fine, m + Fine)[1]
        z2 == MulDivQR(z, z, Fine)[1]
    IN  k * Ln2Fine + 2 * AtanhSeries(z, z2, 1)

\* math.log(x): ValueError ("math domain error") for x <= 0 and for -inf.
MathLog(x) ==
    IF IsNaN(x) THEN Val(NaN)
    ELSE IF IsInf(x) THEN (IF x.v = 1 THEN Val(PosInf) ELSE Raise("ValueError"))
    ELSE IF x.v <= 0 THEN Raise("ValueError")
    ELSE LET l == LnFine(x.v)
             a == Abs(l)
         IN  Val(Fin(Sgn(l) * RoundQR(<<a \div FineFactor, a % FineFactor>>, FineFactor)))

\* round(x, ndigits) on a float: to the nearest multiple of 10^-ndigits, ties to even.
PyRound(x, ndigits) ==
    IF ~IsFin(x) THEN x
    ELSE LET u == Scale \div 10^ndigits
             a == Abs(x.v)
         IN  Pack(Sgn(x.v), RoundQR(<<a \div u, a % u>>, u) * u)

\* Python's two-argument max / min: the first argument unless the second is
\* strictly greater / smaller (so a nan second argument is dropped).
PyMax(a, b) == IF FGt(b, a) THEN b ELSE a
PyMin(a, b) == IF FLt(b, a) THEN b ELSE a

(***************************************************************************)
(* Timestamps (datetime): a wall-clock reading in seconds, with or without *)
(* a time zone; an aware timestamp carries its UTC offset in seconds.      *)
(***************************************************************************)
SecondsPerDay == 86400

Naive(w) == [aware |-> FALSE, wall |-> w, off |-> 0]
Aware(w, o) == [aware |-> TRUE, wall |-> w, off |-> o]
Utc(w) == Aware(w, 0)

\* datetime.now(timezone.utc) when the wall clock (UTC) reads clk.
UtcNow(clk) == Utc(clk)

\* last_interaction_at.replace(tzinfo=timezone.utc): same wall reading, tagged UTC.
ReplaceTzUtc(t) == Aware(t.wall, 0)

\* a - b on datetimes, as total_seconds(): TypeError when exactly one is naive.
Subtract(a, b) ==
    IF a.aware # b.aware THEN Raise("TypeError")
    ELSE Val(Fin((a.wall - a.off) - (b.wall - b.off)))

\* delta.total_seconds() / 86400.0 for a delta of secs whole seconds.
DaysOf(secs) == Fin(Sgn(secs) * MulDivRound(Abs(secs), Scale, SecondsPerDay))

(***************************************************************************)
(* Settings (config.py): the fields the engine reads.                      *)
(***************************************************************************)
\* The float n / 10000.
F4(n) == Fin(n * (Scale \div 10000))

\* Settings() with no overriding environment: the class defaults.
DefaultSettings ==
    [decay_rate_succulent |-> F4(77),
     decay_rate_fern |-> F4(231),
     decay_rate_orchid |-> F4(495),
     decay_rate_bonsai |-> F4(116),
     threshold_healthy |-> F4(7000),
     threshold_cooling |-> F4(4000),
     threshold_dormant |-> F4(1000)]

\* Settings() under an environment / .env file that overrides some fields.
OverriddenSettings ==
    [DefaultSettings EXCEPT !.decay_rate_fern = F4(300),
                            !.threshold_healthy = F4(8000),
                            !.threshold_cooling = F4(5000),
                            !.threshold_dormant = F4(2000)]

Environments == {DefaultSettings, OverriddenSettings}

\* A get_settings that constructs Settings() on every call.
get_settings_reloading(s, e) == <<e>>

\* get_settings(): the module global _settings after the call, given the
\* global before it (<<>> is None) and what Settings() would construct now.
get_settings(s, e) == IF s = <<>> THEN <<e>> ELSE s

(***************************************************************************)
(* The Decay Engine (decay.py).                                            *)
(***************************************************************************)
\* days_elapsed = max(delta.total_seconds() / 86400.0, 0.0)
days_elapsed(secs) == PyMax(DaysOf(secs), Fin(0))

\* The exponent with its sign lost.
growth_exponent(decay_rate, days) == FMul(decay_rate, days)

\* -decay_rate * days_elapsed
decay_exponent(decay_rate, days) == FMul(FNeg(decay_rate), days)

\* max(0.0, min(1.0, health))
clamp_health(health) == PyMax(Fin(0), PyMin(Fin(Scale), health))

\* calculate_health(last_interaction_at, decay_rate, now, initial_health);
\* now is <<>> (None) or <<timestamp>>; utcnow is what datetime.now gives.
calculate_health(last_interaction_at, decay_rate, now, initial_health, utcnow) ==
    LET now1 == IF now = <<>> THEN utcnow ELSE now[1]
        last1 == IF ~last_interaction_at.aware
                 THEN ReplaceTzUtc(last_interaction_at)
                 ELSE last_interaction_at
        delta == Subtract(now1, last1)
    IN  IF IsRaise(delta) THEN delta
        ELSE LET e == MathExp(decay_exponent(decay_rate, days_elapsed(delta.val.v)))
             IN  IF IsRaise(e) THEN e
                 ELSE Val(clamp_health(FMul(initial_health, e.val)))

\* classify_status with exclusive lower bounds.
classify_status_exclusive(health_score, st) ==
    IF FGt(health_score, st.threshold_healthy) THEN "thriving"
    ELSE IF FGt(health_score, st.threshold_cooling) THEN "cooling"
    ELSE IF FGt(health_score, st.threshold_dormant) THEN "at_risk"
    ELSE "dormant"

\* classify_status(health_score) under the loaded settings st.
classify_status(health_score, st) ==
    IF FGe(health_score, st.threshold_healthy) THEN "thriving"
    ELSE IF FGe(health_score, st.threshold_cooling) THEN "cooling"
    ELSE IF FGe(health_score, st.threshold_dormant) THEN "at_risk"
    ELSE "dormant"

\* t = -math.log(threshold / current_health) / decay_rate; round(t, 1)
solve_days(current_health, decay_rate, threshold) ==
    LET q == FDiv(threshold, current_health)
    IN  IF IsRaise(q) THEN q
        ELSE LET l == MathLog(q.val)
             IN  IF IsRaise(l) THEN l
                 ELSE LET t == FDiv(FNeg(l.val), decay_rate)
                      IN  IF IsRaise(t) THEN t ELSE Val(PyRound(t.val, 1))

\* days_until_threshold that lets a health exactly at the threshold through.
days_until_threshold_strict(current_health, decay_rate, threshold) ==
    IF FLt(current_health, threshold) THEN None
    ELSE IF FLe(decay_rate, Fin(0)) THEN None
    ELSE solve_days(current_health, decay_rate, threshold)

\* days_until_threshold(current_health, decay_rate, threshold)
days_until_threshold(current_health, decay_rate, threshold) ==
    IF FLe(current_health, threshold) THEN None
    ELSE IF FLe(decay_rate, Fin(0)) THEN None
    ELSE solve_days(current_health, decay_rate, threshold)

\* get_default_decay_rate that falls back to the slowest tier.
get_default_decay_rate_succulent(tier, st) ==
    CASE tier = "succulent" -> st.decay_rate_succulent
      [] tier = "fern" -> st.decay_rate_fern
      [] tier = "orchid" -> st.decay_rate_orchid
      [] tier = "bonsai" -> st.decay_rate_bonsai
      [] OTHER -> st.decay_rate_succulent

\* get_default_decay_rate(tier) under the loaded settings st.
get_default_decay_rate(tier, st) ==
    CASE tier = "succulent" -> st.decay_rate_succulent
      [] tier = "fern" -> st.decay_rate_fern
      [] tier = "orchid" -> st.decay_rate_orchid
      [] tier = "bonsai" -> st.decay_rate_bonsai
      [] OTHER -> st.decay_rate_fern

(***************************************************************************)
(* Inputs of the engine calls.                                             *)
(***************************************************************************)
\* The wall clock (UTC seconds) when the process starts, and one zone offset.
StartClock == 1000 * SecondsPerDay
ZoneOffset == SecondsPerDay \div 24
DaysBefore(n) == StartClock - n * SecondsPerDay

Timestamps ==
    {Utc(DaysBefore(1000)), Utc(DaysBefore(30)), Naive(DaysBefore(30)),
     Aware(DaysBefore(30) + ZoneOffset, ZoneOffset),
     Utc(StartClock), Naive(StartClock), Utc(StartClock + SecondsPerDay)}

NowArgs ==
    {<<>>, <<Utc(StartClock)>>, <<Naive(StartClock)>>,
     <<Aware(StartClock + ZoneOffset, ZoneOffset)>>,
     <<Utc(StartClock + SecondsPerDay)>>}

DecayRates ==
    {NegInf, F4(-1000000), F4(-500), Fin(0), F4(231), F4(1000000), PosInf, NaN}

InitialHealths ==
    {F4(-5000), Fin(0), F4(5000), Fin(Scale), F4(15000), PosInf, NaN}

HealthValues ==
    {NegInf, F4(-5000), Fin(0), F4(3000), F4(4000), F4(5000), Fin(50001),
     Fin(Scale), F4(15000), Fin(MaxRaw), PosInf, NaN}

Thresholds ==
    {NegInf, F4(-10000), Fin(0), Fin(1), F4(4000), F4(5000), Fin(Scale), NaN}

Scores ==
    {F4(-1000), Fin(0), F4(500), F4(999), F4(1000), F4(2000), F4(2500),
     F4(3999), F4(4000), F4(5000), F4(5500), F4(6999), F4(7000), F4(8000),
     F4(8500), Fin(Scale), PosInf, NegInf, NaN}

Tiers == {"succulent", "fern", "orchid", "bonsai", "unknown", ""}

NoCall == [op |-> "none"]

(***************************************************************************)
(* The engine as a library: a caller invokes one operation at a time and   *)
(* consumes its outcome.  pc is "idle" between calls and "returned" while  *)
(* the outcome of the last call (call, ret) is held by the caller.         *)
(***************************************************************************)
Init ==
    /\ pc = "idle"
    /\ call = NoCall
    /\ ret = None
    /\ settings = <<>>
    /\ env \in Environments
    /\ clock = StartClock
    /\ mark = <<>>
    /\ store = <<>>
    /\ tasks = <<>>

\* calculate_health(last, rate, now, initial_health)
CalculateHealth ==
    /\ pc = "idle"
    /\ \E last \in Timestamps, rate \in DecayRates, now \in NowArgs,
          h0 \in InitialHealths :
          /\ call' = [op |-> "calculate_health", last |-> last, rate |-> rate,
                      now |-> now, initial_health |-> h0, at |-> clock,
                      before |-> <<>>]
          /\ ret' = calculate_health(last, rate, now, h0, UtcNow(clock))
    /\ pc' = "returned"
    /\ UNCHANGED <<settings, env, clock, mark, store, tasks>>

\* The same contact's health computed a second time (get_garden on a later
\* request): calculate_health with the same last, rate and initial_health,
\* possibly after the wall clock has advanced.  The caller keeps the first
\* sample (its now, the clock reading and the outcome) in call.before.
Recalculate ==
    /\ pc = "returned"
    /\ call.op = "calculate_health"
    /\ call.before = <<>>
    /\ \E now \in NowArgs :
        \E dt \in IF now = <<>> THEN {0, SecondsPerDay} ELSE {0} :
          /\ clock + dt <= StartClock + MaxTicks * SecondsPerDay
          /\ clock' = clock + dt
          /\ call' = [call EXCEPT !.now = now, !.at = clock',
                                  !.before = <<[now |-> call.now, at |-> call.at,
                                               ret |-> ret]>>]
          /\ ret' = calculate_health(call.last, call.rate, now,
                                     call.initial_health, UtcNow(clock'))
    /\ UNCHANGED <<pc, settings, env, mark, store, tasks>>

\* classify_status(score): loads the settings on first use.
ClassifyStatus ==
    /\ pc = "idle"
    /\ settings' = get_settings(settings, env)
    /\ \E score \in Scores :
          /\ call' = [op |-> "classify_status", score |-> score]
          /\ ret' = Str(classify_status(score, settings'[1]))
    /\ pc' = "returned"
    /\ UNCHANGED <<env, clock, mark, store, tasks>>

\* days_until_threshold(current_health, rate, threshold)
DaysUntilThreshold ==
    /\ pc = "idle"
    /\ \E h \in HealthValues, rate \in DecayRates, th \in Thresholds :
          /\ call' = [op |-> "days_until_threshold", current_health |-> h,
                      rate |-> rate, threshold |-> th, chained |-> FALSE]
          /\ ret' = days_until_threshold(h, rate, th)
    /\ pc' = "returned"
    /\ UNCHANGED <<settings, env, clock, mark, store, tasks>>

\* days_until_threshold fed with the health calculate_health just returned
\* (as get_garden does), against the cooling threshold or that health itself.
DaysUntilThresholdOfHealth ==
    /\ pc = "returned"
    /\ call.op = "calculate_health"
    /\ call.before = <<>>
    /\ IsVal(ret)
    /\ \E th \in {F4(4000), ret.val} :
          /\ call' = [op |-> "days_until_threshold", current_health |-> ret.val,
                      rate |-> call.rate, threshold |-> th, chained |-> TRUE]
          /\ ret' = days_until_threshold(ret.val, call.rate, th)
    /\ UNCHANGED <<pc, settings, env, clock, mark, store, tasks>>

\* get_default_decay_rate(tier): loads the settings on first use.
GetDefaultDecayRate ==
    /\ pc = "idle"
    /\ settings' = get_settings(settings, env)
    /\ \E tier \in Tiers :
          /\ call' = [op |-> "get_default_decay_rate", tier |-> tier]
          /\ ret' = Val(get_default_decay_rate(tier, settings'[1]))
    /\ pc' = "returned"
    /\ UNCHANGED <<env, clock, mark, store, tasks>>

\* The caller is done with the outcome.
Return ==
    /\ pc = "returned"
    /\ pc' = "idle"
    /\ call' = NoCall
    /\ ret' = None
    /\ UNCHANGED <<settings, env, clock, mark, store, tasks>>

\* A day passes on the wall clock.
Tick ==
    /\ pc = "idle"
    /\ clock < StartClock + MaxTicks * SecondsPerDay
    /\ clock' = clock + SecondsPerDay
    /\ UNCHANGED <<pc, call, ret, settings, env, mark, store, tasks>>

Next ==
    \/ CalculateHealth
    \/ Recalculate
    \/ ClassifyStatus
    \/ DaysUntilThreshold
    \/ DaysUntilThresholdOfHealth
    \/ GetDefaultDecayRate
    \/ Return
    \/ Tick

Spec == Init /\ [][Next]_vars

\* ---------------------------------------------------------------------------
\* Properties of the engine.

\* The instant a timestamp denotes, a naive one read as UTC.
Instant(t) == t.wall - t.off

\* The instant a calculate_health call takes as "now".
NowInstant(now, at) == IF now = <<>> THEN at ELSE Instant(now[1])

\* now is omitted (datetime.now(timezone.utc)) or carries a timezone.
NowAware(now) == now = <<>> \/ now[1].aware

AfterCalculateHealth == pc = "returned" /\ call.op = "calculate_health"
AfterClassifyStatus == pc = "returned" /\ call.op = "classify_status"
AfterDaysUntilThreshold == pc = "returned" /\ call.op = "days_until_threshold"
AfterGetDefaultDecayRate == pc = "returned" /\ call.op = "get_default_decay_rate"

InUnitInterval(x) == FLe(Fin(0), x) /\ FLe(x, Fin(Scale))

\* C1: calculate_health returns a value between 0.0 and 1.0 inclusive for
\* every combination of last_interaction_at, now, decay_rate and
\* initial_health (stated here for calls whose now carries a timezone, so that
\* only the numeric arguments are in play).
C1_HealthInUnitInterval ==
    AfterCalculateHealth /\ NowAware(call.now)
        => IsVal(ret) /\ InUnitInterval(ret.val)

\* C2: classify_status puts a score in exactly one of four buckets: thriving
\* when score >= threshold_healthy, cooling when threshold_cooling <= score <
\* threshold_healthy, at_risk when threshold_dormant <= score <
\* threshold_cooling, dormant when score < threshold_dormant; a score equal to a
\* threshold belongs to the higher bucket.  The thresholds are the configured
\* ones.
C2_StatusBuckets ==
    AfterClassifyStatus =>
        LET s == call.score
            healthy == env.threshold_healthy
            cooling == env.threshold_cooling
            dormant == env.threshold_dormant
        IN  /\ ret.tag = "str"
            /\ ret.str \in {"thriving", "cooling", "at_risk", "dormant"}
            /\ ret.str = "thriving" <=> FGe(s, healthy)
            /\ ret.str = "cooling" <=> FGe(s, cooling) /\ FLt(s, healthy)
            /\ ret.str = "at_risk" <=> FGe(s, dormant) /\ FLt(s, cooling)
            /\ s = healthy => ret.str = "thriving"
            /\ s = cooling => ret.str = "cooling"
            /\ s = dormant => ret.str = "at_risk"
            /\ IsFin(s) /\ FLt(s, dormant) => ret.str = "dormant"

C2_BoundaryScoreClassified ==
    /\ AfterClassifyStatus
    /\ env = OverriddenSettings
    /\ call.score = env.threshold_cooling
    /\ ret.str = "cooling"

\* C3: when last_interaction_at is equal to or later than now, calculate_health
\* returns exactly initial_health, for every decay_rate (stated for an
\* initial_health in [0.0, 1.0] and a now that is omitted or carries a
\* timezone).
C3_FutureReturnsInitialExactly ==
    (/\ AfterCalculateHealth
     /\ NowAware(call.now)
     /\ InUnitInterval(call.initial_health)
     /\ Instant(call.last) >= NowInstant(call.now, call.at))
        => ret = Val(call.initial_health)

\* C4: days_until_threshold returns None whenever current_health <= threshold
\* or decay_rate <= 0; in particular when the health that calculate_health
\* returned is passed both as current_health and as threshold.
C4_NoneAtOrBelowThreshold ==
    AfterDaysUntilThreshold =>
        /\ FLe(call.current_health, call.threshold) => ret = None
        /\ FLe(call.rate, Fin(0)) => ret = None
        /\ call.chained /\ call.threshold = call.current_health => ret = None

C4_RoundTripIsNone ==
    /\ AfterDaysUntilThreshold
    /\ call.chained
    /\ call.threshold = call.current_health
    /\ FGt(call.current_health, Fin(0))
    /\ FLt(call.current_health, Fin(Scale))
    /\ FGt(call.rate, Fin(0))
    /\ ret = None

\* C5: for a fixed decay_rate > 0, a fixed initial_health and the same
\* last_interaction_at, the health computed for the later of two instants is
\* never greater than the health computed for the earlier one.
C5_NonIncreasingInElapsedTime ==
    (/\ AfterCalculateHealth
     /\ call.before # <<>>
     /\ FGt(call.rate, Fin(0))
     /\ IsVal(ret)
     /\ IsVal(call.before[1].ret))
        => LET first == call.before[1]
               t1 == NowInstant(first.now, first.at)
               t2 == NowInstant(call.now, call.at)
           IN  /\ t1 <= t2 => FLe(ret.val, first.ret.val)
               /\ t2 <= t1 => FLe(first.ret.val, ret.val)

C5_DecayedBetweenSamples ==
    /\ AfterCalculateHealth
    /\ call.before # <<>>
    /\ call.rate = F4(231)
    /\ IsVal(ret)
    /\ IsVal(call.before[1].ret)
    /\ NowInstant(call.before[1].now, call.before[1].at)
           < NowInstant(call.now, call.at)
    /\ FLt(Fin(0), ret.val)
    /\ FLt(ret.val, call.before[1].ret.val)

\* C6: whenever current_health > threshold and decay_rate > 0,
\* days_until_threshold returns a non-negative day count, for every threshold
\* and current_health (zero and negative thresholds included).
C6_DayCountNonNegative ==
    (/\ AfterDaysUntilThreshold
     /\ FGt(call.current_health, call.threshold)
     /\ FGt(call.rate, Fin(0)))
        => IsVal(ret) /\ FGe(ret.val, Fin(0))

\* C7: no engine function raises, for all numeric inputs however extreme
\* (stated for calls whose now is omitted or carries a timezone, so that only
\* the numeric arguments are in play).
C7_NoErrorOutcome ==
    (/\ pc = "returned"
     /\ call.op = "calculate_health" => NowAware(call.now))
        => ~IsRaise(ret)

\* C8: get_default_decay_rate returns the configured rate of each of the four
\* known tiers and the configured fern rate for every other tier name.
C8_TierLookup ==
    AfterGetDefaultDecayRate =>
        /\ IsVal(ret)
        /\ call.tier = "succulent" => ret.val = env.decay_rate_succulent
        /\ call.tier = "fern" => ret.val = env.decay_rate_fern
        /\ call.tier = "orchid" => ret.val = env.decay_rate_orchid
        /\ call.tier = "bonsai" => ret.val = env.decay_rate_bonsai
        /\ call.tier \notin {"succulent", "fern", "orchid", "bonsai"}
               => ret.val = env.decay_rate_fern

C8_UnknownTierGetsFern ==
    /\ AfterGetDefaultDecayRate
    /\ env = OverriddenSettings
    /\ call.tier = "unknown"
    /\ ret = Val(OverriddenSettings.decay_rate_fern)

\* A timestamp with tzinfo=None given the UTC zone, any other left alone.
TaggedUtc(t) == IF t.aware THEN t ELSE Utc(t.wall)

\* C9: a timestamp without a time zone passed to calculate_health, as
\* last_interaction_at or as now, gives the outcome of the call with that
\* timestamp tagged UTC.
C9_NaiveTreatedAsUtc ==
    (/\ AfterCalculateHealth
     /\ \/ ~call.last.aware
        \/ call.now # <<>> /\ ~call.now[1].aware)
        => ret = calculate_health(TaggedUtc(call.last), call.rate,
                                  IF call.now = <<>> THEN <<>>
                                  ELSE <<TaggedUtc(call.now[1])>>,
                                  call.initial_health, UtcNow(call.at))

\* ---------------------------------------------------------------------------
\* The engine under a changing environment, with one earlier call remembered.
\* A process keeps calling the engine while the wall clock advances and the
\* environment variables that Settings() would read are changed; mark holds
\* one earlier call and its outcome, to compare a later call against.

HistoryTimestamps == {Utc(DaysBefore(30)), Naive(DaysBefore(30))}
HistoryNowArgs == {<<>>, <<Utc(StartClock)>>}
HistoryRates == {F4(231), F4(-500)}
HistoryScores == {F4(3000), F4(7000)}
HistoryThresholds == {F4(4000), F4(5000)}
HistoryTiers == {"fern", "unknown"}

HistoryCalculateHealth ==
    /\ pc = "idle"
    /\ \E last \in HistoryTimestamps, rate \in HistoryRates, now \in HistoryNowArgs :
          /\ call' = [op |-> "calculate_health", last |-> last, rate |-> rate,
                      now |-> now, initial_health |-> Fin(Scale), at |-> clock,
                      before |-> <<>>]
          /\ ret' = calculate_health(last, rate, now, Fin(Scale), UtcNow(clock))
    /\ pc' = "returned"
    /\ UNCHANGED <<settings, env, clock, mark, store, tasks>>

HistoryClassifyStatus ==
    /\ pc = "idle"
    /\ settings' = get_settings(settings, env)
    /\ \E score \in HistoryScores :
          /\ call' = [op |-> "classify_status", score |-> score]
          /\ ret' = Str(classify_status(score, settings'[1]))
    /\ pc' = "returned"
    /\ UNCHANGED <<env, clock, mark, store, tasks>>

HistoryDaysUntilThreshold ==
    /\ pc = "idle"
    /\ \E rate \in HistoryRates, th \in HistoryThresholds :
          /\ call' = [op |-> "days_until_threshold", current_health |-> Fin(Scale),
                      rate |-> rate, threshold |-> th, chained |-> FALSE]
          /\ ret' = days_until_threshold(Fin(Scale), rate, th)
    /\ pc' = "returned"
    /\ UNCHANGED <<settings, env, clock, mark, store, tasks>>

HistoryGetDefaultDecayRate ==
    /\ pc = "idle"
    /\ settings' = get_settings(settings, env)
    /\ \E tier \in HistoryTiers :
          /\ call' = [op |-> "get_default_decay_rate", tier |-> tier]
          /\ ret' = Val(get_default_decay_rate(tier, settings'[1]))
    /\ pc' = "returned"
    /\ UNCHANGED <<env, clock, mark, store, tasks>>

\* The caller keeps the call that just returned, and its outcome.
Remember ==
    /\ pc = "returned"
    /\ mark = <<>>
    /\ mark' = <<[call |-> call, ret |-> ret]>>
    /\ UNCHANGED <<pc, call, ret, settings, env, clock, store, tasks>>

\* The environment variables / .env file that Settings() reads are changed
\* while the process runs.
ChangeEnvironment ==
    /\ pc = "idle"
    /\ env' \in Environments \ {env}
    /\ UNCHANGED <<pc, call, ret, settings, clock, mark, store, tasks>>

HistoryNext ==
    \/ HistoryCalculateHealth
    \/ HistoryClassifyStatus
    \/ HistoryDaysUntilThreshold
    \/ HistoryGetDefaultDecayRate
    \/ Remember
    \/ ChangeEnvironment
    \/ Return
    \/ Tick

SpecHistory == Init /\ [][HistoryNext]_vars

\* The arguments a call was made with.
Args(c) ==
    CASE c.op = "calculate_health" -> <<c.last, c.rate, c.now, c.initial_health>>
      [] c.op = "classify_status" -> <<c.score>>
      [] c.op = "days_until_threshold" -> <<c.current_health, c.rate, c.threshold>>
      [] c.op = "get_default_decay_rate" -> <<c.tier>>

\* The call that just returned repeats the remembered one.
RepeatsMark == /\ pc = "returned"
               /\ mark # <<>>
               /\ call.op = mark[1].call.op
               /\ Args(call) = Args(mark[1].call)

\* Every argument was passed: calculate_health was given its now.
AllExplicit(c) == c.op = "calculate_health" => c.now # <<>>

SameArgsSameResult == RepeatsMark /\ AllExplicit(call) => ret = mark[1].ret

LoadedOnceOnly ==
    /\ settings # <<>> => settings' = settings
    /\ settings' # settings =>
          /\ call'.op \in {"classify_status", "get_default_decay_rate"}
          /\ settings' = <<env>>

MaxThreads == 2

Threads == 1..MaxThreads

ThreadsInit ==
    /\ pc = "idle"
    /\ call = NoCall
    /\ ret = None
    /\ settings = <<>>
    /\ env \in Environments
    /\ clock = StartClock
    /\ mark = <<>>
    /\ store = <<>>
    /\ tasks = [t \in Threads |-> [at |-> "test", built |-> <<>>, result |-> <<>>]]

\* if _settings is None:
TestSettings(t) ==
    /\ tasks[t].at = "test"
    /\ tasks' = [tasks EXCEPT ![t].at = IF settings = <<>> THEN "construct"
                                       ELSE "return"]
    /\ UNCHANGED <<pc, call, ret, settings, env, clock, mark, store>>

\* Settings(): reads the environment / .env file of this moment.
ConstructSettings(t) ==
    /\ tasks[t].at = "construct"
    /\ tasks' = [tasks EXCEPT ![t].at = "assign", ![t].built = <<env>>]
    /\ UNCHANGED <<pc, call, ret, settings, env, clock, mark, store>>

\* _settings = <the object just built>
AssignSettings(t) ==
    /\ tasks[t].at = "assign"
    /\ settings' = tasks[t].built
    /\ tasks' = [tasks EXCEPT ![t].at = "return"]
    /\ UNCHANGED <<pc, call, ret, env, clock, mark, store>>

\* return _settings
ReturnSettings(t) ==
    /\ tasks[t].at = "return"
    /\ tasks' = [tasks EXCEPT ![t].at = "done", ![t].result = settings]
    /\ UNCHANGED <<pc, call, ret, settings, env, clock, mark, store>>

TestStep == \E t \in Threads : TestSettings(t)
ConstructStep == \E t \in Threads : ConstructSettings(t)
AssignStep == \E t \in Threads : AssignSettings(t)
ReturnStep == \E t \in Threads : ReturnSettings(t)

ThreadsNext ==
    \/ TestStep
    \/ ConstructStep
    \/ AssignStep
    \/ ReturnStep
    \/ ChangeEnvironment

SpecThreads == ThreadsInit /\ [][ThreadsNext]_vars

\* C11: the settings are constructed at most once per process, the global is
\* never replaced once set, and every caller of get_settings gets the same
\* Settings value, under every interleaving of the callers.
C11_SettingsConstructedOnce ==
    /\ Cardinality({t \in Threads : tasks[t].built # <<>>}) <= 1
    /\ \A t, u \in Threads :
          tasks[t].at = "done" /\ tasks[u].at = "done"
              => tasks[t].result = tasks[u].result

(***************************************************************************)
(* The garden endpoints (api/v1/garden.py) over the contacts store.        *)
(* store.contacts maps a contact id to its row and store.interactions is   *)
(* the interactions table.  Timestamps in the store are timezone-aware     *)
(* (timestamptz columns, read back with datetime.fromisoformat).           *)
(***************************************************************************)
\* F applied to the value of x, x being evaluated once.
With(x, F(_)) == CHOOSE r \in {F(v) : v \in {x}} : TRUE

\* x + y (total_health += health)
FAdd(x, y) ==
    IF IsNaN(x) \/ IsNaN(y) THEN NaN
    ELSE IF IsInf(x) THEN (IF IsInf(y) /\ x.v # y.v THEN NaN ELSE x)
    ELSE IF IsInf(y) THEN y
    ELSE Pack(Sgn(x.v + y.v), Abs(x.v + y.v))

\* The outcome of a handler: a response body.
Ok(body) == [tag |-> "ok", val |-> Fin(0), str |-> "", exc |-> "", body |-> body]

\* get_growth_stage(total)
get_growth_stage(total) ==
    IF total >= 50 THEN "ancient"
    ELSE IF total >= 25 THEN "mature"
    ELSE IF total >= 10 THEN "sapling"
    ELSE IF total >= 3 THEN "sprout"
    ELSE "seed"

\* health = max(0.0, min(1.0, round(math.exp(-decay_rate * days_ago), 4)))
seed_health(decay_rate, days_ago) ==
    clamp_health(PyRound(MathExp(FMul(FNeg(decay_rate), Fin(days_ago * Scale))).val, 4))

\* The row seed() inserts for a contact last met days_ago days before now.
seed_contact(user_id, decay_rate, days_ago, total, now) ==
    [user_id |-> user_id,
     is_archived |-> FALSE,
     last_interaction_at |-> Utc(now - days_ago * SecondsPerDay),
     decay_rate |-> decay_rate,
     health_score |-> seed_health(decay_rate, days_ago),
     total_interactions |-> total,
     growth_stage |-> get_growth_stage(total)]

\* u3 has no contacts.
Users == {"u1", "u2", "u3"}
ContactIds == {"a", "b", "c", "d"}

\* The store some time after seeding: two contacts of u1 in the garden, one
\* contact of u1 archived since, and one contact of another user.
SeededStore ==
    [contacts |->
        [id \in ContactIds |->
            CASE id = "a" -> seed_contact("u1", DefaultSettings.decay_rate_orchid,
                                          1, 2, StartClock)
              [] id = "b" -> seed_contact("u1", DefaultSettings.decay_rate_succulent,
                                          7, 9, StartClock)
              [] id = "c" -> [seed_contact("u1", DefaultSettings.decay_rate_fern,
                                           30, 24, StartClock)
                              EXCEPT !.is_archived = TRUE]
              [] id = "d" -> seed_contact("u2", DefaultSettings.decay_rate_fern,
                                          30, 49, StartClock)],
     interactions |-> <<>>]

\* The selection without the is_archived filter.
select_all_of_user(st, user_id) ==
    {id \in DOMAIN st.contacts : st.contacts[id].user_id = user_id}

\* .eq("user_id", user_id).eq("is_archived", False): the ids selected.
select_garden(st, user_id) ==
    {id \in DOMAIN st.contacts :
        st.contacts[id].user_id = user_id /\ ~st.contacts[id].is_archived}

\* .order("health_score", desc=False): the orders the database may return the
\* rows in (rows with equal scores come in any order).
ordered_by_health(st, ids) ==
    {o \in [1..Cardinality(ids) -> ids] :
        /\ \A i, j \in 1..Cardinality(ids) : i # j => o[i] # o[j]
        /\ \A i, j \in 1..Cardinality(ids) :
              i < j => FLe(st.contacts[o[i]].health_score,
                           st.contacts[o[j]].health_score)}

\* .eq("id", contact_id).eq("user_id", user_id): the ids selected.
select_contact(st, contact_id, user_id) ==
    {id \in DOMAIN st.contacts :
        id = contact_id /\ st.contacts[id].user_id = user_id}

\* .eq("id", contact_id): the ids selected.
select_by_id(st, contact_id) == {id \in DOMAIN st.contacts : id = contact_id}

\* .single().execute(): the row when exactly one row matches; otherwise
\* PostgREST answers 406 (PGRST116) and the client raises APIError.
single(st, ids) ==
    IF Cardinality(ids) = 1 THEN Ok(st.contacts[CHOOSE id \in ids : TRUE])
    ELSE Raise("APIError")

\* .update({"health_score": health}).eq("id", id)
update_health(st, id, health) ==
    IF id \in DOMAIN st.contacts
    THEN [st EXCEPT !.contacts[id].health_score = health]
    ELSE st

\* The database trigger on interactions: on insert it resets the contact's
\* health to 1.0, counts the interaction, advances the growth stage and moves
\* last_interaction_at to the interaction's time; keep_latest tells whether an
\* interaction older than the stored last_interaction_at leaves it in place.
on_interaction_insert(st, it, keep_latest) ==
    IF it.contact_id \notin DOMAIN st.contacts THEN st
    ELSE LET row == st.contacts[it.contact_id]
             total == row.total_interactions + 1
             last == IF keep_latest /\ Instant(it.happened_at)
                                          < Instant(row.last_interaction_at)
                     THEN row.last_interaction_at
                     ELSE it.happened_at
         IN  [st EXCEPT !.contacts[it.contact_id] =
                 [row EXCEPT !.health_score = Fin(Scale),
                             !.total_interactions = total,
                             !.growth_stage = get_growth_stage(total),
                             !.last_interaction_at = last]]

\* supabase.table("interactions").insert({...}), with the trigger it fires.
insert_interaction(st, it, keep_latest) ==
    on_interaction_insert([st EXCEPT !.interactions = Append(@, it)], it, keep_latest)

\* The PlantHealth entry of a contact whose health is h, with the unrounded
\* health that goes into total_health.
plant_entry(row, id, h, st) ==
    With(days_until_threshold(h, row.decay_rate, F4(4000)),
         LAMBDA d :
            IF IsRaise(d) THEN d
            ELSE Ok([health |-> h,
                     entry |-> [id |-> id,
                                health_score |-> PyRound(h, 4),
                                status |-> classify_status(h, st),
                                days_until_cooling |-> d,
                                last_interaction_at |-> row.last_interaction_at,
                                growth_stage |-> row.growth_stage,
                                total_interactions |-> row.total_interactions]]))

\* get_garden's loop reading the stored health_score column instead.
plant_health_stored(row, id, now, st) == plant_entry(row, id, row.health_score, st)

\* The body of get_garden's loop for one contact.
plant_health(row, id, now, st) ==
    With(calculate_health(row.last_interaction_at, row.decay_rate, <<now>>,
                          Fin(Scale), now),
         LAMBDA h : IF IsRaise(h) THEN h ELSE plant_entry(row, id, h.val, st))

\* total_health after the first n entries.
RECURSIVE total_health(_, _)
total_health(plants, n) ==
    IF n = 0 THEN Fin(0) ELSE FAdd(total_health(plants, n - 1), plants[n].body.health)

\* round(total_health / total, 4) if total > 0 else 0.0
avg_health(total, n) ==
    IF n > 0 THEN PyRound(FDiv(total, Fin(n * Scale)).val, 4) ELSE Fin(0)

\* The GardenResponse built from the loop's results, or the first exception.
garden_response(plants, user_id, now) ==
    LET n == Len(plants)
        failed == {i \in 1..n : IsRaise(plants[i])}
    IN  IF failed # {}
        THEN plants[CHOOSE i \in failed : \A j \in failed : i <= j]
        ELSE Ok([user_id |-> user_id,
                 total_plants |-> n,
                 avg_health |-> avg_health(total_health(plants, n), n),
                 needs_attention |->
                     Cardinality({i \in 1..n :
                                    plants[i].body.entry.status
                                        \in {"at_risk", "dormant"}}),
                 plants |-> [i \in 1..n |-> plants[i].body.entry],
                 refreshed_at |-> now])

\* The loop's results for the first n rows, as a sequence.
RECURSIVE garden_loop(_, _, _, _, _)
garden_loop(st, stg, now, order, n) ==
    IF n = 0 THEN <<>>
    ELSE Append(garden_loop(st, stg, now, order, n - 1),
                plant_health(st.contacts[order[n]], order[n], now, stg))

\* get_garden(user_id), the rows having come back in the given order.
get_garden(st, stg, user_id, now, order) ==
    With(garden_loop(st, stg, now, order, Len(order)),
         LAMBDA plants : garden_response(plants, user_id, now))

\* select("id, last_interaction_at, decay_rate"): what refresh_garden keeps of
\* a row it has read.
refresh_row(st, id) ==
    [id |-> id,
     last_interaction_at |-> st.contacts[id].last_interaction_at,
     decay_rate |-> st.contacts[id].decay_rate]

\* health = round(calculate_health(last_interaction, decay_rate, now), 4)
refresh_health(r, now) ==
    With(calculate_health(r.last_interaction_at, r.decay_rate, <<now>>,
                          Fin(Scale), now),
         LAMBDA h : IF IsRaise(h) THEN h ELSE Val(PyRound(h.val, 4)))

\* refresh_garden's loop from entry i of the rows it read: the outcome and the
\* store it leaves.
RECURSIVE refresh_loop(_, _, _, _, _, _)
refresh_loop(st, rows, i, now, total, user_id) ==
    IF i > Len(rows)
    THEN <<Ok([user_id |-> user_id,
               contacts_updated |-> Len(rows),
               avg_health |-> avg_health(total, Len(rows)),
               refreshed_at |-> now]), st>>
    ELSE With(refresh_health(rows[i], now),
              LAMBDA h :
                 IF IsRaise(h) THEN <<h, st>>
                 ELSE refresh_loop(update_health(st, rows[i].id, h.val), rows,
                                   i + 1, now, FAdd(total, h.val), user_id))

\* refresh_garden(req), the rows having come back in the given order.
refresh_garden(st, user_id, now, order) ==
    refresh_loop(st, [i \in DOMAIN order |-> refresh_row(st, order[i])], 1, now,
                 Fin(0), user_id)

\* The WaterResponse built from the re-fetched row.
water_response(contact_id, data, stg) ==
    Ok([contact_id |-> contact_id,
        new_health |-> data.health_score,
        new_stage |-> data.growth_stage,
        status |-> classify_status(data.health_score, stg)])

\* water_plant(contact_id, req): the outcome and the store it leaves.
water_plant(st, stg, contact_id, user_id, happened_at, utcnow, keep_latest) ==
    LET now == IF happened_at = <<>> THEN utcnow ELSE happened_at[1]
        contact_resp == single(st, select_contact(st, contact_id, user_id))
    IN  IF IsRaise(contact_resp) THEN <<contact_resp, st>>
        ELSE IF DOMAIN contact_resp.body = {}
        THEN <<Raise("HTTPException(404)"), st>>
        ELSE LET st1 == insert_interaction(st, [contact_id |-> contact_id,
                                                user_id |-> user_id,
                                                type |-> "other",
                                                source |-> "manual",
                                                happened_at |-> now], keep_latest)
                 updated == single(st1, select_by_id(st1, contact_id))
             IN  IF IsRaise(updated) THEN <<updated, st1>>
                 ELSE <<water_response(contact_id, updated.body, stg), st1>>

\* Number of interactions the interactions table may hold.
MaxInteractions == 1

\* A contact of each user, and an id that no row has.
WaterTargets == {"a", "d", "missing"}
HappenedAts == {<<>>, <<Utc(DaysBefore(3))>>}

\* The orders a select without .order() may return the rows in.
any_order(ids) ==
    {o \in [1..Cardinality(ids) -> ids] :
        \A i, j \in 1..Cardinality(ids) : i # j => o[i] # o[j]}

\* The service process after start-up: app/main.py has called get_settings(),
\* and the store holds the seeded contacts.
GardenInit ==
    /\ pc = "idle"
    /\ call = NoCall
    /\ ret = None
    /\ env \in Environments
    /\ settings = <<env>>
    /\ clock = StartClock
    /\ mark = <<>>
    /\ store = SeededStore
    /\ tasks = <<>>

\* GET /garden/{user_id}.  The handler has no await: it runs to its end
\* before the event loop takes the next request.
GetGarden ==
    /\ pc = "idle"
    /\ \E user_id \in Users :
       \E order \in ordered_by_health(store, select_garden(store, user_id)) :
          /\ call' = [op |-> "get_garden", user_id |-> user_id, at |-> clock,
                      before |-> store]
          /\ ret' = get_garden(store, get_settings(settings, env)[1], user_id,
                               UtcNow(clock), order)
    /\ settings' = get_settings(settings, env)
    /\ pc' = "returned"
    /\ UNCHANGED <<env, clock, mark, store, tasks>>

\* POST /refresh-garden
RefreshGarden ==
    /\ pc = "idle"
    /\ \E user_id \in Users :
       \E order \in any_order(select_garden(store, user_id)) :
          \E r \in {refresh_garden(store, user_id, UtcNow(clock), order)} :
              /\ call' = [op |-> "refresh_garden", user_id |-> user_id,
                          at |-> clock, before |-> store]
              /\ ret' = r[1]
              /\ store' = r[2]
    /\ settings' = get_settings(settings, env)
    /\ pc' = "returned"
    /\ UNCHANGED <<env, clock, mark, tasks>>

\* POST /water/{contact_id}
WaterPlant ==
    /\ pc = "idle"
    /\ Len(store.interactions) < MaxInteractions
    /\ \E contact_id \in WaterTargets, user_id \in Users,
          happened_at \in HappenedAts, keep_latest \in BOOLEAN :
          \E r \in {water_plant(store, get_settings(settings, env)[1], contact_id,
                                  user_id, happened_at, UtcNow(clock), keep_latest)} :
              /\ call' = [op |-> "water_plant", contact_id |-> contact_id,
                          user_id |-> user_id, happened_at |-> happened_at,
                          at |-> clock, before |-> store]
              /\ ret' = r[1]
              /\ store' = r[2]
    /\ settings' = get_settings(settings, env)
    /\ pc' = "returned"
    /\ UNCHANGED <<env, clock, mark, tasks>>

GardenNext ==
    \/ GetGarden
    \/ RefreshGarden
    \/ WaterPlant
    \/ Return
    \/ Tick

SpecGarden == GardenInit /\ [][GardenNext]_vars

(***************************************************************************)
(* Properties of the garden service.                                       *)
(***************************************************************************)
AfterGetGarden == pc = "returned" /\ call.op = "get_garden"
AfterRefreshGarden == pc = "returned" /\ call.op = "refresh_garden"
AfterWaterPlant == pc = "returned" /\ call.op = "water_plant"

\* C13: water_plant for a (contact_id, user_id) pair that matches no contact
\* ends in the not-found outcome (HTTP 404), and the store is as it was: no
\* interaction inserted, no contact modified.
C13_MissingContactIsNotFound ==
    (/\ AfterWaterPlant
     /\ select_contact(call.before, call.contact_id, call.user_id) = {})
        => /\ ret = Raise("HTTPException(404)")
           /\ store = call.before

\* The non-archived contacts of a user in a store.
InGarden(st, user_id) ==
    {id \in DOMAIN st.contacts :
        st.contacts[id].user_id = user_id /\ st.contacts[id].is_archived = FALSE}

\* round(calculate_health(last_interaction_at, decay_rate, now), 4) of a row.
LiveScore(row, now) ==
    PyRound(calculate_health(row.last_interaction_at, row.decay_rate, <<now>>,
                             Fin(Scale), now).val, 4)

\* C15: refresh_garden(user_id) writes the live score, rounded to 4 places,
\* into health_score of exactly the user's non-archived contacts, reports
\* their number as contacts_updated (avg_health 0.0 when there are none), and
\* leaves every other contact, every other field and the interactions as
\* they were.
C15_RefreshWritesLiveScores ==
    (AfterRefreshGarden /\ ret.tag = "ok")
        => /\ DOMAIN store.contacts = DOMAIN call.before.contacts
           /\ \A id \in DOMAIN call.before.contacts :
                 store.contacts[id] =
                    IF id \in InGarden(call.before, call.user_id)
                    THEN [call.before.contacts[id] EXCEPT
                             !.health_score = LiveScore(call.before.contacts[id],
                                                        UtcNow(call.at))]
                    ELSE call.before.contacts[id]
           /\ store.interactions = call.before.interactions
           /\ ret.body.contacts_updated
                 = Cardinality(InGarden(call.before, call.user_id))
           /\ InGarden(call.before, call.user_id) = {}
                 => ret.body.avg_health = Fin(0)

\* A refresh that changed the stored score of a contact of a user who also
\* has an archived contact.
C15_RefreshChangedAScore ==
    /\ AfterRefreshGarden
    /\ ret.tag = "ok"
    /\ \E id \in InGarden(call.before, call.user_id) :
          store.contacts[id].health_score # call.before.contacts[id].health_score
    /\ \E id \in DOMAIN call.before.contacts :
          /\ call.before.contacts[id].user_id = call.user_id
          /\ call.before.contacts[id].is_archived

\* C17: the plants get_garden returns are in non-decreasing order of the
\* health_score reported for each of them.
C17_PlantsOrderedByReportedHealth ==
    (AfterGetGarden /\ ret.tag = "ok")
        => \A i, j \in DOMAIN ret.body.plants :
              i < j => FLe(ret.body.plants[i].health_score,
                           ret.body.plants[j].health_score)

(***************************************************************************)
(* The garden service with one get_garden response kept by a client, to    *)
(* compare a later response with.                                          *)
(***************************************************************************)
RememberGarden == AfterGetGarden /\ ret.tag = "ok" /\ Remember

GardenHistoryNext ==
    \/ GardenNext
    \/ RememberGarden

SpecGardenHistory == GardenInit /\ [][GardenHistoryNext]_vars

\* What get_garden's select returns of a contact, the health_score column
\* left out.
contact_columns(st, id) ==
    [c \in DOMAIN st.contacts[id] \ {"health_score", "total_interactions",
                                     "growth_stage"} |-> st.contacts[id][c]]

\* The response held and the response kept are for the same user, the same
\* now and the same contacts.
SameGardenAsked ==
    /\ AfterGetGarden
    /\ ret.tag = "ok"
    /\ mark # <<>>
    /\ mark[1].call.user_id = call.user_id
    /\ mark[1].call.at = call.at
    /\ select_garden(mark[1].call.before, call.user_id)
          = select_garden(call.before, call.user_id)
    /\ \A id \in select_garden(call.before, call.user_id) :
          contact_columns(mark[1].call.before, id) = contact_columns(call.before, id)

\* The health_score and status reported for each plant, by id.
reported(body) ==
    {<<body.plants[i].id, body.plants[i].health_score, body.plants[i].status>> :
        i \in DOMAIN body.plants}

SameGardenReported == SameGardenAsked => reported(ret.body) = reported(mark[1].ret.body)

GetGardenWritesNothing == (pc = "idle" /\ call'.op = "get_garden") => store' = store

\* C14: get_garden reports health_score and status computed live, never the
\* stored column -- two responses for the same user, the same now and
\* contacts with the same last_interaction_at and decay_rate report the same
\* health_score and status for every plant, whatever the stored health_score
\* was at either call; and get_garden leaves the store as it was.
C14_GardenComputedLive == []SameGardenReported /\ [][GetGardenWritesNothing]_vars

\* A second response for the same garden after the stored health_score of one
\* of its contacts has changed.
C14_SameGardenAfterStoredScoreChanged ==
    /\ SameGardenAsked
    /\ \E id \in select_garden(call.before, call.user_id) :
          mark[1].call.before.contacts[id].health_score
              # call.before.contacts[id].health_score

(***************************************************************************)
(* Two requests in flight at once: POST /refresh-garden and POST /water    *)
(* served by different worker processes (or the cron job and a user), so   *)
(* that each call to the database is a step of its own.  tasks.refresh and *)
(* tasks.water hold each handler's position and local variables.           *)
(***************************************************************************)
NotStarted == [at |-> "start"]

ConcurrentInit ==
    /\ pc = "idle"
    /\ call = NoCall
    /\ ret = None
    /\ env \in Environments
    /\ settings = <<env>>
    /\ clock = StartClock
    /\ mark = <<>>
    /\ store = SeededStore
    /\ tasks = [refresh |-> NotStarted, water |-> NotStarted]

\* refresh_garden up to the select: now is taken and the rows are read.
RefreshRead ==
    /\ tasks.refresh.at = "start"
    /\ \E user_id \in Users :
       \E order \in any_order(select_garden(store, user_id)) :
          tasks' = [tasks EXCEPT !.refresh =
                       [at |-> "loop",
                        user_id |-> user_id,
                        now |-> UtcNow(clock),
                        rows |-> [i \in DOMAIN order |-> refresh_row(store, order[i])],
                        i |-> 1,
                        total |-> Fin(0)]]
    /\ settings' = get_settings(settings, env)
    /\ UNCHANGED <<pc, call, ret, env, clock, mark, store>>

\* One iteration of refresh_garden's loop: the score of the row read earlier
\* is computed and written by id.
RefreshWrite ==
    /\ tasks.refresh.at = "loop"
    /\ tasks.refresh.i <= Len(tasks.refresh.rows)
    /\ \E h \in {refresh_health(tasks.refresh.rows[tasks.refresh.i],
                                tasks.refresh.now)} :
          IF IsRaise(h)
          THEN /\ tasks' = [tasks EXCEPT !.refresh = [at |-> "done", result |-> h]]
               /\ UNCHANGED store
          ELSE /\ store' = update_health(store,
                                         tasks.refresh.rows[tasks.refresh.i].id,
                                         h.val)
               /\ tasks' = [tasks EXCEPT !.refresh.i = @ + 1,
                                         !.refresh.total = FAdd(@, h.val)]
    /\ UNCHANGED <<pc, call, ret, settings, env, clock, mark>>

\* refresh_garden after its loop: the RefreshResult is returned.
RefreshReturn ==
    /\ tasks.refresh.at = "loop"
    /\ tasks.refresh.i > Len(tasks.refresh.rows)
    /\ tasks' = [tasks EXCEPT !.refresh =
                    [at |-> "done",
                     result |-> refresh_loop(store, tasks.refresh.rows,
                                             tasks.refresh.i, tasks.refresh.now,
                                             tasks.refresh.total,
                                             tasks.refresh.user_id)[1]]]
    /\ UNCHANGED <<pc, call, ret, settings, env, clock, mark, store>>

\* water_plant up to the ownership check: the contact is looked up.
WaterCheck ==
    /\ tasks.water.at = "start"
    /\ \E contact_id \in WaterTargets, user_id \in Users,
          happened_at \in HappenedAts, keep_latest \in BOOLEAN :
          \E contact_resp \in {single(store, select_contact(store, contact_id, user_id))} :
             tasks' = [tasks EXCEPT !.water =
                          IF IsRaise(contact_resp)
                          THEN [at |-> "done", contact_id |-> contact_id,
                                result |-> contact_resp]
                          ELSE IF DOMAIN contact_resp.body = {}
                          THEN [at |-> "done", contact_id |-> contact_id,
                                result |-> Raise("HTTPException(404)")]
                          ELSE [at |-> "insert",
                                contact_id |-> contact_id,
                                user_id |-> user_id,
                                now |-> IF happened_at = <<>> THEN UtcNow(clock)
                                        ELSE happened_at[1],
                                keep_latest |-> keep_latest]]
    /\ settings' = get_settings(settings, env)
    /\ UNCHANGED <<pc, call, ret, env, clock, mark, store>>

\* water_plant's insert, with the trigger it fires.
WaterInsert ==
    /\ tasks.water.at = "insert"
    /\ store' = insert_interaction(store, [contact_id |-> tasks.water.contact_id,
                                           user_id |-> tasks.water.user_id,
                                           type |-> "other",
                                           source |-> "manual",
                                           happened_at |-> tasks.water.now],
                                   tasks.water.keep_latest)
    /\ tasks' = [tasks EXCEPT !.water.at = "fetch"]
    /\ UNCHANGED <<pc, call, ret, settings, env, clock, mark>>

\* water_plant's re-fetch of the contact and the WaterResponse.
WaterFetch ==
    /\ tasks.water.at = "fetch"
    /\ \E updated \in {single(store, select_by_id(store, tasks.water.contact_id))} :
          tasks' = [tasks EXCEPT !.water =
                       [at |-> "done",
                        contact_id |-> tasks.water.contact_id,
                        result |-> IF IsRaise(updated) THEN updated
                                   ELSE water_response(tasks.water.contact_id,
                                                       updated.body,
                                                       get_settings(settings, env)[1])]]
    /\ settings' = get_settings(settings, env)
    /\ UNCHANGED <<pc, call, ret, env, clock, mark, store>>

ConcurrentNext ==
    \/ RefreshRead
    \/ RefreshWrite
    \/ RefreshReturn
    \/ WaterCheck
    \/ WaterInsert
    \/ WaterFetch
    \/ Tick

SpecGardenConcurrent == ConcurrentInit /\ [][ConcurrentNext]_vars

WaterSucceeded == tasks.water.at = "done" /\ tasks.water.result.tag = "ok"

\* C12: recording an interaction resets the score to 1.0 -- when water_plant
\* returns a WaterResponse, the contact's stored health_score and the
\* new_health it returns are 1.0 and the status is thriving.
C12_WateringResetsScore ==
    [][(tasks.water.at = "fetch" /\ WaterSucceeded')
          => /\ store'.contacts[tasks.water.contact_id].health_score = Fin(Scale)
             /\ tasks'.water.result.body.new_health = Fin(Scale)
             /\ tasks'.water.result.body.status = "thriving"]_vars

RefreshSucceeded == tasks.refresh.at = "done" /\ tasks.refresh.result.tag = "ok"

\* C16: after a watering and a refresh that ran concurrently have both
\* completed, the watered contact's stored health_score is consistent with
\* its latest last_interaction_at -- it is the reset score 1.0 or the score
\* the refresh computes from that last_interaction_at, never a score computed
\* from the last_interaction_at the contact had before the watering.
C16_RefreshKeepsWateredScore ==
    (WaterSucceeded /\ RefreshSucceeded)
        => LET row == store.contacts[tasks.water.contact_id]
           IN  \/ row.health_score = Fin(Scale)
               \/ row.health_score
                     = LiveScore(row, tasks.refresh.result.body.refreshed_at)
====
